---- MODULE Spec2Model ----
(***************************************************************************)
(* A model of the chat server: the per-conversation chat sockets and the   *)
(* MessageController that handles every inbound frame (controllers/        *)
(* message), the channel hub (uWebSockets publish), the socketQueue and    *)
(* the SocketWorker with its connection registry, and the conversation     *)
(* HTTP service.                                                           *)
(*                                                                         *)
(* Every handler of MessageController is an async function: it runs        *)
(* synchronously up to its first await, and each await is a point where    *)
(* other handlers run.  One action of the model is one such synchronous    *)
(* section: the repository or queue call that was awaited takes effect and *)
(* the code that follows it runs up to the next await.                     *)
(***************************************************************************)
EXTENDS Integers, Sequences, FiniteSets, TLC

VARIABLES
    messages,       \* the messages collection: _id -> document
    nextId,         \* number of ObjectIds generated so far
    clock,          \* the server's clock (new Date())
    conversations,  \* the conversations collection: hex -> document
    chatState,      \* chat socket -> "new" | "open" | "closed"
    tasks,          \* one MessageController per inbound frame, in arrival order
    received,       \* chat socket -> frames its client received
    topicLog,       \* the publishes made to the hubs, in call order
    queue,          \* jobs waiting in socketQueue
    jobsDone,       \* jobs the workers processed, with what was sent
    evState,        \* /events socket -> "new" | "open" | "closed"
    registry,       \* instance -> (user -> /events socket): activeConnections
    evReceived,     \* /events socket -> frames its client received
    requests,       \* the HTTP requests, in arrival order
    users,          \* the users collection: the hex of each document
    upgrades        \* the upgrade requests of both socket routes, in arrival order

chatVars == <<messages, nextId, clock, conversations, chatState, tasks,
              received, topicLog, queue>>
workerVars == <<jobsDone, evState, registry, evReceived>>
httpVars == <<requests, users>>
upgradeVars == <<upgrades>>
vars == <<chatVars, workerVars, httpVars, upgradeVars>>

-----------------------------------------------------------------------------
(* Bounds of the model. *)

MaxFrames == 2      \* inbound frames handled in one behaviour
MaxRequests == 2    \* HTTP requests handled in one behaviour
MaxUpgrades == 2    \* upgrade requests handled in one behaviour

-----------------------------------------------------------------------------
(* The fixed world: users, instances, one conversation and the connections  *)
(* that may be made.                                                        *)

Users == {"u1", "u2", "u3"}
Instances == {"A", "B"}
Hexes == {"H1", "H2", "H3", "H4", "H5", "H6"}
None == "none"
Undefined == "undefined"

\* a store in which the conversation H2 holds a third participant
ParticipantsWithThird(h) ==
    IF h = "H2" THEN <<"u1", "u3", "u2">> ELSE <<"u1", "u2">>

\* ws.conversation.participants, as stored with the conversation
Participants(h) ==
    CASE h = "H1" -> <<"u1", "u2">>
      [] h = "H2" -> <<"u1", "u3">>
      [] h = "H3" -> <<"u1", "u4">>
      [] h = "H4" -> <<"u1", "u5">>
      [] h = "H5" -> <<"u1", "u6">>
      [] OTHER -> <<"u1", "u7">>

\* chat.maxPins: convertToNumber(process.env.CHAT_MAX_PINS, 5)
maxPins == 5

\* the pins stored with the conversations: u1 has pinned H2..H6
StoredPins(h) == IF h = "H1" THEN <<>> ELSE <<"u1">>

\* the kind stored with the conversations: H1 is trusted, the others are
\* requests (the schema's default)
StoredKind(h) == IF h = "H1" THEN "trusted" ELSE "request"

\* the connections made to /chat/:hex, with the principal of the cookie and
\* the hex of the URL: s5 is a user outside the conversation, s6 names a
\* conversation that is not stored
ChatSockets == {"s1", "s2", "s3", "s4", "s5", "s6"}
sockUser == [s \in ChatSockets |->
                CASE s \in {"s1", "s4", "s6"} -> "u1"
                  [] s = "s5" -> "u3"
                  [] OTHER -> "u2"]
sockInst == [s \in ChatSockets |-> IF s = "s3" THEN "B" ELSE "A"]
sockConv == [s \in ChatSockets |->
                CASE s = "s4" -> "H2"
                  [] s = "s6" -> "H9"
                  [] OTHER -> "H1"]

\* the connections made to /events: e3 is a second connection of u1
EventSockets == {"e1", "e2", "e3"}
evUser == [e \in EventSockets |-> IF e = "e2" THEN "u2" ELSE "u1"]
evInst == [e \in EventSockets |-> "A"]

Statuses == {"sent", "delivered", "read"}
Kinds == {"new", "reply", "status", "reaction", "update", "remove", "forward"}

-----------------------------------------------------------------------------
(* Inbound frames.  The payload is the frame's `message` value: for new and *)
(* reply the message fields, for the other kinds the value the handler uses *)
(* as the message id.  `valid` says whether the fields pass the validator's *)
(* schema, `castable` whether the id value casts to an ObjectId (a lookup   *)
(* with a value that does not cast is rejected with a CastError).           *)

MaxIds == MaxFrames

Payload(valid, user, status, ref, castable) ==
    [valid |-> valid, user |-> user, status |-> status, ref |-> ref,
     castable |-> castable]

InvalidPayload == Payload(FALSE, None, "sent", 0, TRUE)

\* a value that does not cast to an ObjectId
UncastablePayload == Payload(TRUE, None, "sent", 0, FALSE)

\* The validator.  A frame's `message` is abstracted to the class of the
\* value it has under each key.
Rule(key, type, required, maxLength, enum) ==
    [key |-> key, type |-> type, required |-> required,
     maxLength |-> maxLength, enum |-> enum]

\* the schema of validateMessage, in the order of its keys; maxLength and
\* enum say whether the rule has one
MessageRules ==
    << Rule("conversation", "string", TRUE, TRUE, FALSE),
       Rule("kind", "enum", TRUE, FALSE, TRUE),
       Rule("type", "enum", TRUE, FALSE, TRUE),
       Rule("user", "string", TRUE, TRUE, FALSE),
       Rule("recipientContent", "content", TRUE, FALSE, FALSE),
       Rule("senderContent", "content", TRUE, FALSE, FALSE),
       Rule("status", "enum", TRUE, FALSE, TRUE),
       Rule("attachments", "array", FALSE, TRUE, FALSE),
       Rule("images", "array", FALSE, TRUE, FALSE),
       Rule("videos", "array", FALSE, TRUE, FALSE),
       Rule("reactions", "array", FALSE, TRUE, FALSE),
       Rule("audio", "string", FALSE, TRUE, FALSE) >>

OptionalKeys == {"attachments", "images", "videos", "reactions", "audio"}

\* strings: a short one, one over the rule's maxLength, a member of the
\* rule's enum, a string that is no member
StringValues == {"string", "longString", "member", "nonmember"}

\* validate, one key: whether a throw leaves the loop.  A missing value
\* under a rule with maxLength throws the TypeError of `undefined.length`.
Throws(rule, value) ==
    \/ rule.required /\ value = "absent"
    \/ rule.type = "boolean" /\ value # "boolean"
    \/ rule.type = "string" /\ value \notin StringValues
    \/ rule.maxLength /\ value \in {"absent", "longString", "longArray"}
    \/ rule.enum /\ value # "member"

\* validate(values, schema) returns the values; MessageController.validate
\* turns a throw into validated: false
validate(values, schema) ==
    \A k \in 1..Len(schema) : ~Throws(schema[k], values[schema[k].key])

\* validateMessage(values, conversation): values.conversation = conversation
validateMessage(values) ==
    validate([values EXCEPT !["conversation"] = "string"], MessageRules)

\* a frame with every field valid
FullFrame ==
    [key \in {MessageRules[k].key : k \in 1..Len(MessageRules)} |->
        CASE key \in {"kind", "type", "status"} -> "member"
          [] key \in {"recipientContent", "senderContent"} -> "content"
          [] key \in {"attachments", "images", "videos", "reactions"} -> "array"
          [] OTHER -> "string"]

\* a frame with the required fields valid and the optional fields absent
MinimalFrame ==
    [key \in DOMAIN FullFrame |->
        IF key \in OptionalKeys THEN "absent" ELSE FullFrame[key]]

\* the payload of a `new` frame of u1 that carries the values of the frame
FramePayload(values) ==
    [values |-> values] @@ Payload(validateMessage(values), "u1", "sent", 0, TRUE)

\* new: the author the frame names and the status it carries
NewPayloads ==
    {Payload(TRUE, u, "sent", 0, TRUE) : u \in Users}
        \cup {Payload(TRUE, "u1", "read", 0, TRUE), InvalidPayload}
        \cup {FramePayload(MinimalFrame)}

\* reply: the parent's id
ReplyPayloads ==
    {Payload(TRUE, "u2", "sent", r, TRUE) : r \in 1..MaxIds}
        \cup {InvalidPayload, UncastablePayload}

\* status, reaction: the id
RefPayloads ==
    {Payload(TRUE, None, "sent", r, TRUE) : r \in 1..MaxIds} \cup {UncastablePayload}

\* remove: the bare id, or the object {id, user} that names the user; the
\* handler uses the frame's `message` as the id, and the object does not cast
RemovePayloads ==
    {Payload(TRUE, None, "sent", r, TRUE) : r \in 1..MaxIds}
        \cup {Payload(TRUE, u, "sent", r, FALSE) : u \in {"u1", "u2"}, r \in 1..MaxIds}

\* reaction: the bare id, or the object {id, reaction, user}, which does not
\* cast
ReactionPayloads ==
    RefPayloads
        \cup {[reaction |-> "like"] @@ Payload(TRUE, u, "sent", r, FALSE) :
                 u \in {"u1", "u2"}, r \in 1..MaxIds}

\* status: the bare id, or the object {id, status} that names the verb, which
\* does not cast
StatusPayloads ==
    RefPayloads
        \cup {Payload(TRUE, None, verb, r, FALSE) :
                 verb \in {"delivered", "read"}, r \in 1..MaxIds}

PayloadsFor(kind) ==
    CASE kind = "new" -> NewPayloads
      [] kind = "status" -> StatusPayloads
      [] kind = "reaction" -> ReactionPayloads
      [] kind = "reply" -> ReplyPayloads
      [] kind \in {"forward", "update"} -> {Payload(TRUE, None, "sent", 1, TRUE)}
      [] kind = "remove" -> RemovePayloads
      [] OTHER -> RefPayloads

-----------------------------------------------------------------------------
(* Frames the server sends.  `task` is the index of the inbound frame that  *)
(* caused the frame (0 for the frame of the open handler).                  *)

Frame(kind, mkind, hasId, id, conversation, status, error, task) ==
    [kind |-> kind, mkind |-> mkind, hasId |-> hasId, id |-> id,
     conversation |-> conversation, status |-> status, error |-> error,
     task |-> task]

\* { kind: 'error', message: { kind, error } }
KindError(i, mkind, text) == Frame("error", mkind, FALSE, 0, None, None, text, i)
\* { kind: 'error', message: { id: id, error } }
IdError(i, ref, text) == Frame("error", None, TRUE, ref, None, None, text, i)
\* { kind: 'error', message: { error } }
BareError(i, text) == Frame("error", None, FALSE, 0, None, None, text, i)
\* { kind, message: {_id, conversation, ...} }
EventFrame(i, kind, id, conversation, status) ==
    Frame(kind, None, TRUE, id, conversation, status, None, i)
SystemFrame == Frame("system", None, FALSE, 0, None, None, None, 0)

NoFrame == Frame(None, None, FALSE, 0, None, None, None, 0)

-----------------------------------------------------------------------------
(* The channel hub and the socket of a controller.                          *)

\* a hub that hands a publish to the sockets of every topic
SubscribersOfAnyTopic(ws) ==
    {s \in ChatSockets : /\ chatState[s] = "open"
                         /\ sockInst[s] = sockInst[ws]
                         /\ s # ws}

\* ws.subscribe(`/chat/${hex}`) in open: the topic's subscribers on the
\* instance of ws; ws.publish does not deliver to ws itself
Subscribers(ws) ==
    {s \in ChatSockets : /\ chatState[s] = "open"
                         /\ sockInst[s] = sockInst[ws]
                         /\ sockConv[s] = sockConv[ws]
                         /\ s # ws}

\* this.ws.publish(`/chat/${this.conversation}`, JSON.stringify(message))
Published(rcv, ws, frame) ==
    [s \in ChatSockets |->
        IF s \in Subscribers(ws) THEN Append(rcv[s], frame) ELSE rcv[s]]

HubEntry(ws, frame) ==
    [inst |-> sockInst[ws], topic |-> sockConv[ws], from |-> ws, frame |-> frame]

\* this.ws.send(JSON.stringify(message)) inside try/catch: a send on a closed
\* socket throws and the exception is swallowed
Sent(rcv, ws, frame) ==
    IF chatState[ws] = "open" THEN [rcv EXCEPT ![ws] = Append(@, frame)] ELSE rcv

-----------------------------------------------------------------------------
(* MessageController: one instance per inbound frame.                       *)

\* this.users = this.participants.map(participant => participant.user)
ControllerUsers(ws) == Participants(sockConv[ws])

NewTask(s, kind, p) ==
    [sock |-> s, kind |-> kind, arg |-> p, pc |-> "start", mid |-> 0, at |-> 0,
     conv |-> None, event |-> NoFrame, err |-> None, fault |-> FALSE,
     nerr |-> 0, npub |-> 0, njob |-> 0, reply |-> None]

Put(i, t) ==
    IF i = Len(tasks) + 1 THEN Append(tasks, t) ELSE [tasks EXCEPT ![i] = t]

\* the text each handler's catch block sends
CatchText(kind) ==
    CASE kind = "new" -> "Error saving message"
      [] kind = "reply" -> "Error replying to message"
      [] kind = "status" -> "Error delivering message"
      [] kind = "reaction" -> "Error reacting to message"
      [] kind = "update" -> "Error editing message"
      [] OTHER -> "Error deleting message"

\* the frame each handler's catch block sends
CatchFrame(i, t) ==
    IF t.kind \in {"new", "reply"}
    THEN KindError(i, t.kind, CatchText(t.kind))
    ELSE IdError(i, t.arg.ref, CatchText(t.kind))

\* the task after a repository or queue call has rejected
Faulted(t, rejected) == [t EXCEPT !.fault = rejected]

\* an error that is published to the topic instead of sent to the socket
FailBroadcast(i, t, frame) ==
    /\ tasks' = Put(i, [t EXCEPT !.pc = "done", !.err = frame.error, !.nerr = @ + 1])
    /\ received' = Published(received, t.sock, frame)

\* this.send({ kind: 'error', ... }); return
Fail(i, t, frame) ==
    /\ tasks' = Put(i, [t EXCEPT !.pc = "done", !.err = frame.error, !.nerr = @ + 1])
    /\ received' = Sent(received, t.sock, frame)

\* this.publish(data), then the call of this.worker(...), which is awaited.
\* A publish on a closed socket throws, and the handler's catch block runs.
PublishThenEnqueue(i, t, frame) ==
    IF chatState[t.sock] = "open"
    THEN /\ tasks' = Put(i, [t EXCEPT !.pc = "enqueue", !.event = frame, !.npub = @ + 1])
         /\ received' = Published(received, t.sock, frame)
         /\ topicLog' = Append(topicLog, HubEntry(t.sock, frame))
    ELSE /\ Fail(i, t, CatchFrame(i, t))
         /\ topicLog' = topicLog

\* a validator that leaves the frame's own `conversation` in place; the frame
\* names the one conversation the socket is not bound to
ConversationOfFrame(ws) == IF sockConv[ws] = "H1" THEN "H2" ELSE "H1"

\* validateMessage, validateReply: values.conversation = conversation, the
\* controller's this.conversation = ws.conversation.hex
ValidatedConversation(ws) == sockConv[ws]

\* new Message({...validatedMessage, createdAt: new Date()}): the validator has
\* set `conversation` to the socket's conversation; _id is generated here.
\* The clock is read as one tick later at every reading.
Construct(i, t, next) ==
    /\ clock' = clock + 1
    /\ nextId' = nextId + 1
    /\ tasks' = Put(i, [t EXCEPT !.pc = next, !.mid = nextId + 1, !.at = clock + 1,
                                 !.conv = ValidatedConversation(t.sock)])
    /\ received' = received

\* the two envelopes of a message: the content encrypted for the sender and
\* the content encrypted for the recipient
SenderEnvelope == "for-sender"
RecipientEnvelope == "for-recipient"

\* reply: { recipientContent: parentMessage.senderContent,
\*          senderContent: parentMessage.recipientContent }
ReplyProjection(parentMessage) ==
    [recipientContent |-> parentMessage.senderContent,
     senderContent |-> parentMessage.recipientContent]

\* {...validatedMessage, createdAt: new Date()}, and for a reply the key
\* `reply` besides
Fields(t) ==
    LET validatedMessage ==
            [conversation |-> t.conv, user |-> t.arg.user,
             status |-> t.arg.status, kind |-> t.kind,
             parent |-> IF t.kind = "reply" THEN t.arg.ref ELSE 0,
             senderContent |-> SenderEnvelope,
             recipientContent |-> RecipientEnvelope,
             reactions |-> <<>>,
             createdAt |-> t.at]
    IN  IF t.kind = "reply"
        THEN validatedMessage @@ [reply |-> t.reply]
        ELSE validatedMessage

\* the paths of messageSchema
messageSchema ==
    {"conversation", "kind", "parent", "user", "recipientContent",
     "senderContent", "status", "reactions", "createdAt"}

\* new Message(fields): the schema is strict, a key that is no path of the
\* schema is not set on the document
Cast(fields) ==
    [path \in DOMAIN fields \cap messageSchema |-> fields[path]]

\* the document that savedMessage.save() inserts, and savedMessage.toObject()
NewDocument(t) == Cast(Fields(t))

\* a save that resolves without storing the document
InsertedNowhere(id, doc) == messages

Inserted(id, doc) ==
    [m \in DOMAIN messages \cup {id} |-> IF m = id THEN doc ELSE messages[m]]

Deleted(id) == [m \in DOMAIN messages \ {id} |-> messages[m]]

\* delete: if (message.user === user)
DeleteAuthorized(doc, user) == doc.user = user

\* delivered: message.status = 'delivered'
DeliveredStatus(doc) == "delivered"

Attempts == 3
Backoff == 1000

\* a worker that addresses the job to the sender's counterpart alone
JobForOthers(ws, conversation, data) ==
    [to |-> SelectSeq(ControllerUsers(ws), LAMBDA u : u # sockUser[ws]),
     kind |-> "worker", conversation |-> conversation,
     data |-> data, attempts |-> Attempts, backoff |-> Backoff]

\* a worker that addresses every job to u1 and u2
JobForFixedPair(ws, conversation, data) ==
    [to |-> <<"u1", "u2">>, kind |-> "worker", conversation |-> conversation,
     data |-> data, attempts |-> Attempts, backoff |-> Backoff]

\* worker: the job added to socketQueue
JobFor(ws, conversation, data) ==
    [to |-> ControllerUsers(ws), kind |-> "worker", conversation |-> conversation,
     data |-> data, attempts |-> Attempts, backoff |-> Backoff]

\* process: action.call(this, message) passes the frame's `message` as the
\* handler's first parameter and nothing else, so the `user` parameter of
\* delete(id, user) is undefined
CallUser(t) == Undefined

\* and so is the `reaction` parameter of react(id, reaction, user)
CallReaction(t) == Undefined

\* react: if (user === message.user) the slot `from`, else the slot `to`
ReactSlot(doc, user) == IF user = doc.user THEN "from" ELSE "to"

\* react: if (!reaction) null, else reaction
SlotValue(reaction) == IF reaction \in {Undefined, None} THEN None ELSE reaction

\* message.reactions.from = ... / message.reactions.to = ...: `reactions` is
\* an array of subdocuments, and the assignment sets a property of the array
\* object and no element of it
Assigned(doc, reaction, user) ==
    [items |-> doc.reactions, slot |-> ReactSlot(doc, user),
     value |-> SlotValue(reaction)]

\* message.save() after the assignment: the elements of the array
StoredReactions(assigned) == assigned.items

-----------------------------------------------------------------------------
(* The synchronous section a handler runs when its frame arrives.           *)

\* save, up to `await savedMessage.save()`
StartSave(i, t) ==
    IF ~t.arg.valid
    THEN /\ Fail(i, t, BareError(i, "Invalid message"))
         /\ UNCHANGED <<nextId, clock>>
    ELSE Construct(i, t, "save")

\* reply, up to `await Message.findOne({_id: validatedMessage.parent}).exec()`
StartReply(i, t) ==
    /\ IF ~t.arg.valid
       THEN Fail(i, t, KindError(i, "reply", "Invalid message"))
       ELSE /\ tasks' = Put(i, [t EXCEPT !.pc = "findParent"])
            /\ received' = received
    /\ UNCHANGED <<nextId, clock>>

\* delivered, react, delete, up to `await Message.findOne({_id: id}).exec()`
StartFind(i, t) ==
    /\ tasks' = Put(i, [t EXCEPT !.pc = "find"])
    /\ UNCHANGED <<received, nextId, clock>>

\* edit: validateContent({senderContent, recipientContent}) is called with both
\* parameters undefined and throws "senderContent is required"
StartEdit(i, t) ==
    /\ Fail(i, t, CatchFrame(i, t))
    /\ UNCHANGED <<nextId, clock>>

\* forward: the table's entry logs and returns undefined, `.then` of undefined
\* throws, and the socket's message handler catches and logs
StartForward(i, t) ==
    /\ tasks' = Put(i, [t EXCEPT !.pc = "done"])
    /\ UNCHANGED <<received, nextId, clock>>

\* app.ws('/chat/:hex').message -> new MessageController -> process
Receive(s, kind, p) ==
    /\ chatState[s] = "open"
    /\ Len(tasks) < MaxFrames
    /\ p \in PayloadsFor(kind)
    /\ LET i == Len(tasks) + 1
           t == NewTask(s, kind, p)
       IN  CASE kind = "new" -> StartSave(i, t)
             [] kind = "reply" -> StartReply(i, t)
             [] kind = "update" -> StartEdit(i, t)
             [] kind = "forward" -> StartForward(i, t)
             [] OTHER -> StartFind(i, t)
    /\ UNCHANGED <<messages, conversations, chatState, topicLog, queue>>
    /\ UNCHANGED <<workerVars, httpVars, upgradeVars>>

-----------------------------------------------------------------------------
(* The sections that run when an awaited call returns; ok = FALSE is the    *)
(* call rejecting (a repository or queue failure).                          *)

\* a reply that goes on to save whatever the lookup of the parent returned
AfterFindParentUnchecked(i, t, ok) ==
    /\ Construct(i, t, "save")
    /\ UNCHANGED <<messages, topicLog, queue>>

\* reply: after the lookup of the parent
AfterFindParent(i, t, ok) ==
    /\ IF ~ok \/ ~t.arg.castable
       THEN /\ Fail(i, Faulted(t, t.arg.castable /\ ~ok), CatchFrame(i, t))
            /\ UNCHANGED <<nextId, clock>>
       ELSE IF t.arg.ref \notin DOMAIN messages
       THEN /\ Fail(i, t, KindError(i, "reply", "Parent message not found"))
            /\ UNCHANGED <<nextId, clock>>
       ELSE Construct(i, [t EXCEPT !.reply = ReplyProjection(messages[t.arg.ref])],
                      "save")
    /\ UNCHANGED <<messages, topicLog, queue>>

\* delivered, react, delete: after the lookup of the message
AfterFind(i, t, ok) ==
    /\ IF ~ok \/ ~t.arg.castable
       THEN Fail(i, Faulted(t, t.arg.castable /\ ~ok), CatchFrame(i, t))
       ELSE IF t.arg.ref \notin DOMAIN messages
       THEN Fail(i, t, IdError(i, t.arg.ref, "Message not found"))
       ELSE LET found == [t EXCEPT !.mid = t.arg.ref,
                                   !.conv = messages[t.arg.ref].conversation]
            IN  IF t.kind # "remove"
                THEN /\ tasks' = Put(i, [found EXCEPT !.pc = "save"])
                     /\ received' = received
                ELSE IF DeleteAuthorized(messages[t.arg.ref], CallUser(t))
                THEN /\ tasks' = Put(i, [found EXCEPT !.pc = "remove"])
                     /\ received' = received
                ELSE Fail(i, found,
                          IdError(i, t.arg.ref, "Unauthorized to delete message"))
    /\ UNCHANGED <<messages, topicLog, queue, nextId, clock>>

\* save, reply: after savedMessage.save()
AfterInsert(i, t, ok) ==
    /\ IF ~ok
       THEN Fail(i, Faulted(t, TRUE), CatchFrame(i, t)) /\ UNCHANGED <<messages, topicLog>>
       ELSE /\ messages' = Inserted(t.mid, NewDocument(t))
            /\ PublishThenEnqueue(i, t,
                   EventFrame(i, t.kind, t.mid, t.conv, t.arg.status))
    /\ UNCHANGED <<queue, nextId, clock>>

\* delivered, react: after message.save(); a save of a document that is no
\* longer stored rejects
AfterUpdate(i, t, ok) ==
    /\ IF ~ok \/ t.mid \notin DOMAIN messages
       THEN Fail(i, Faulted(t, TRUE), CatchFrame(i, t)) /\ UNCHANGED <<messages, topicLog>>
       ELSE LET doc == messages[t.mid]
                st == IF t.kind = "status" THEN DeliveredStatus(doc) ELSE None
            IN  /\ messages' = IF t.kind = "status"
                               THEN [messages EXCEPT ![t.mid].status = st]
                               ELSE [messages EXCEPT ![t.mid].reactions =
                                        StoredReactions(
                                           Assigned(doc, CallReaction(t), CallUser(t)))]
                /\ PublishThenEnqueue(i, t,
                       EventFrame(i, t.kind, t.arg.ref, t.conv, st))
    /\ UNCHANGED <<queue, nextId, clock>>

\* delete: after message.remove()
AfterRemove(i, t, ok) ==
    /\ IF ~ok
       THEN Fail(i, Faulted(t, TRUE), CatchFrame(i, t)) /\ UNCHANGED <<messages, topicLog>>
       ELSE /\ messages' = Deleted(t.mid)
            /\ PublishThenEnqueue(i, t,
                   EventFrame(i, "remove", t.arg.ref, t.conv, None))
    /\ UNCHANGED <<queue, nextId, clock>>

\* after socketQueue.add(...) in worker
AfterEnqueue(i, t, ok) ==
    /\ IF ~ok
       THEN Fail(i, Faulted(t, TRUE), CatchFrame(i, t)) /\ queue' = queue
       ELSE /\ queue' = Append(queue, JobFor(t.sock, t.event.conversation, t.event))
            /\ tasks' = Put(i, [t EXCEPT !.pc = "done", !.njob = @ + 1])
            /\ received' = received
    /\ UNCHANGED <<messages, topicLog, nextId, clock>>

Resume(i, ok) ==
    /\ i \in 1..Len(tasks)
    /\ tasks[i].pc \notin {"done", "start"}
    /\ LET t == tasks[i]
       IN  CASE t.pc = "findParent" -> AfterFindParent(i, t, ok)
             [] t.pc = "find" -> AfterFind(i, t, ok)
             [] t.pc = "save" /\ t.kind \in {"new", "reply"} -> AfterInsert(i, t, ok)
             [] t.pc = "save" -> AfterUpdate(i, t, ok)
             [] t.pc = "remove" -> AfterRemove(i, t, ok)
             [] OTHER -> AfterEnqueue(i, t, ok)
    /\ UNCHANGED <<conversations, chatState>>
    /\ UNCHANGED <<workerVars, httpVars, upgradeVars>>

-----------------------------------------------------------------------------
(* The chat socket's lifecycle.  A socket is one connection: it is opened   *)
(* once and closed once.                                                    *)

\* app.ws('/chat/:hex').open: subscribe, then publish the system frame
Opened(s) ==
    /\ chatState' = [chatState EXCEPT ![s] = "open"]
    /\ received' = Published(received, s, SystemFrame)
    /\ topicLog' = Append(topicLog, HubEntry(s, SystemFrame))
    /\ UNCHANGED <<messages, nextId, clock, conversations, tasks, queue>>

\* a connection whose upgrade succeeded
ChatOpen(s) ==
    /\ chatState[s] = "new"
    /\ Opened(s)
    /\ UNCHANGED <<workerVars, httpVars, upgradeVars>>

\* app.ws('/chat/:hex').close
ChatClose(s) ==
    /\ chatState[s] = "open"
    /\ chatState' = [chatState EXCEPT ![s] = "closed"]
    /\ UNCHANGED <<messages, nextId, clock, conversations, tasks, received,
                   topicLog, queue>>
    /\ UNCHANGED <<workerVars, httpVars, upgradeVars>>

-----------------------------------------------------------------------------
(* The /events socket and the connection registry.  The upgrade passes the  *)
(* token's claims as the socket's user data ({ ...user }), and open and     *)
(* close read ws.user.hex: `nested` says whether the claims carry a `user`  *)
(* object; when they do not, reading ws.user.hex throws.                    *)

EvIsOpen(e) == evState[e] \in {"open", "openNoUser"}

\* app.ws('/events').open
EvOpened(e, nested) ==
    /\ IF nested
       THEN /\ evState' = [evState EXCEPT ![e] = "open"]
            /\ registry' = [registry EXCEPT ![evInst[e]][evUser[e]] = e]
       ELSE /\ evState' = [evState EXCEPT ![e] = "openNoUser"]
            /\ registry' = registry
    /\ UNCHANGED <<jobsDone, evReceived>>

\* a connection whose upgrade succeeded
EvOpen(e, nested) ==
    /\ evState[e] = "new"
    /\ EvOpened(e, nested)
    /\ UNCHANGED <<chatVars, httpVars, upgradeVars>>

\* app.ws('/events').close
EvClose(e) ==
    /\ EvIsOpen(e)
    /\ evState' = [evState EXCEPT ![e] = "closed"]
    /\ registry' = IF evState[e] = "open"
                   THEN [registry EXCEPT ![evInst[e]][evUser[e]] = None]
                   ELSE registry
    /\ UNCHANGED <<jobsDone, evReceived>>
    /\ UNCHANGED <<chatVars, httpVars, upgradeVars>>

-----------------------------------------------------------------------------
(* SocketWorker: the worker of an instance takes the next job and runs      *)
(* send(job.data) against the instance's registry.                          *)

\* data.to.map(user => this.connections.get(user))
Lookups(inst, job) == [k \in 1..Len(job.to) |-> registry[inst][job.to[k]]]

\* the outcomes of the sends of one run of send: none throws (0), the first
\* throws (1), the second throws (2)
SendOutcomes == {0, 1, 2}

\* send: the position of the ws.send that throws, 0 when none does.  A send
\* on a closed socket throws, and so does a send that the environment fails.
SendThrown(inst, job, outcome) ==
    LET conns == Lookups(inst, job)
        user1 == conns[1]
        user2 == conns[2]
    IN  IF user1 # None /\ user2 # None
        THEN IF ~EvIsOpen(user1) \/ outcome = 1 THEN 1
             ELSE IF ~EvIsOpen(user2) \/ outcome = 2 THEN 2
             ELSE 0
        ELSE 0

\* send: the sockets that are sent JSON.stringify(data).  When a send throws,
\* the catch block logs, and the sends after it do not happen.
SendTargets(inst, job, outcome) ==
    LET conns == Lookups(inst, job)
        thrown == SendThrown(inst, job, outcome)
    IN  IF conns[1] # None /\ conns[2] # None
        THEN CASE thrown = 1 -> {}
               [] thrown = 2 -> {conns[1]}
               [] OTHER -> {conns[1], conns[2]}
        ELSE {}

\* send: whether the error of a ws.send leaves send.  The catch block of send
\* logs it and returns, so the processor's own catch, which rethrows, is not
\* entered.
Rethrown(thrown) == FALSE

\* job.attemptsMade: the runs of the processor for the job so far
AttemptsMade(job) ==
    Cardinality({k \in 1..Len(jobsDone) : jobsDone[k].job = job})

\* the queue after a run of the processor: a job whose processor threw is
\* added again after the backoff while it has attempts left; a job whose
\* processor returned is completed and removed (removeOnComplete)
AfterRun(job, failed) ==
    IF failed /\ AttemptsMade(job) + 1 < job.attempts
    THEN Append(Tail(queue), job)
    ELSE Tail(queue)

\* the processor's `data`: job.data, the object worker passed to
\* socketQueue.add
JobData(job) ==
    [to |-> job.to, kind |-> job.kind, conversation |-> job.conversation,
     data |-> job.data]

\* send: const message = JSON.stringify(data)
SendText(data) == data

WorkerProcess(inst, outcome) ==
    /\ queue # <<>>
    /\ LET job == Head(queue)
           targets == SendTargets(inst, job, outcome)
           thrown == SendThrown(inst, job, outcome)
       IN  /\ queue' = AfterRun(job, Rethrown(thrown))
           /\ evReceived' = [e \in EventSockets |->
                  IF e \in targets
                  THEN Append(evReceived[e], SendText(JobData(job)))
                  ELSE evReceived[e]]
           /\ jobsDone' = Append(jobsDone, [job |-> job, inst |-> inst, sentTo |-> targets,
                                            thrown |-> thrown,
                                            failed |-> Rethrown(thrown)])
    /\ UNCHANGED <<evState, registry>>
    /\ UNCHANGED <<messages, nextId, clock, conversations, chatState, tasks,
                   received, topicLog>>
    /\ UNCHANGED <<httpVars, upgradeVars>>

-----------------------------------------------------------------------------
(* ConversationService: POST /chat/create.  A request is the body's         *)
(* `participants` (a list of user hexes), whether the body parses as JSON,  *)
(* and the x-access-token cookie.                                           *)

Tokens == {"missing", "invalid", "valid"}

ParticipantLists ==
    {<<"u1", "u2">>, <<"u2", "u1">>, <<"u1", "u3">>, <<"u1">>, <<"u2", "u3", "u1">>}

\* the routes of ConversationService and UserService that are modelled
Routes == {"create", "pin", "unpin", "userAdd"}

\* a request: its route and URL parameter, what its body holds (the
\* participants of create; whether the key fields of user/add are present and
\* valid), and the user its token names
Request(route, hex, participants, keys, user) ==
    [route |-> route, hex |-> hex, participants |-> participants, keys |-> keys,
     user |-> user, token |-> "missing", pc |-> "start", status |-> 0,
     ran |-> FALSE, conv |-> None, pending |-> <<>>, fault |-> FALSE]

RequestsOf(route) ==
    CASE route = "create" ->
            {Request("create", None, p, None, "u1") : p \in ParticipantLists}
      [] route = "userAdd" ->
            {Request("userAdd", None, <<>>, k, u) :
                k \in {"ok", "missing", "invalid"}, u \in {"u1", "u3"}}
      [] OTHER -> {Request(route, h, <<>>, None, "u1") : h \in {"H1", "H2"}}

\* the users collection before any request
StoredUsers == <<"u1", "u2">>

\* jsonResponse(res, status, data) and the responses of registerRoute and
\* middleware: the request is answered with the status
Responded(req, status) == [req EXCEPT !.pc = "done", !.status = status]

\* an exception that leaves an async function nobody awaits: the promise
\* rejects unhandled and the request is never answered
Thrown(req) == [req EXCEPT !.pc = "thrown"]

\* registerRoute: handler({ req: enhancedReq, res }) - the object the handler
\* is called with has no `body` property
HandlerBody(req) == Undefined

\* enhancedReq = { ...req, body, getHeader }: the spread copies no method of
\* the native request, so enhancedReq.getParameter is not a function and
\* req.getParameter(0) throws a TypeError
RouteParameter(req) == Undefined

\* exists(participants): findOne({'participants.hex': {$all: participants}}).
\* The participant schema has no `hex` path (its field is `user`), so whether
\* the filter matches no document or is stripped and matches any document is
\* left to the driver: `stripped` is that choice.
exists(participants, stripped) ==
    stripped /\ DOMAIN conversations # {}

\* create({ res, body }): `const { participants, kind } = body` throws a
\* TypeError when body is undefined; the promise create returns rejects and
\* nobody handles it, so the request is never answered.  new Conversation({
\* participants, kind, hex }) lacks the required `from`, so save() rejects.
create(req, body, stripped) ==
    IF body = Undefined
    THEN Thrown(req)
    ELSE IF Len(body) < 2
    THEN Responded(req, 400)
    ELSE IF exists(body, stripped)
    THEN Responded(req, 400)
    ELSE Responded(req, 500)

\* a pin that skips the lookup and the checks and saves the push
pinUnchecked(req, parameter) ==
    [req EXCEPT !.pc = "save", !.conv = req.hex]

\* pin, unpin up to `await Conversation.findOne(...)`: req.getParameter(0) is
\* evaluated before the try block; `const { hex: conversationHex } =` takes the
\* `hex` property of the parameter, which a string does not have
pin(req, parameter) ==
    IF parameter = Undefined
    THEN Thrown(req)
    ELSE [req EXCEPT !.pc = "findOne", !.conv = Undefined]

\* pin, unpin after findOne({ hex: conversationHex, participants: { $in:
\* [hex] } }); `matched` is whether the driver matches the user hex against
\* the participant documents
AfterFindOne(req, matched) ==
    IF ~(req.conv \in DOMAIN conversations /\ matched)
    THEN Responded(req, 404)
    ELSE LET pins == conversations[req.conv].pins
             pinned == \E k \in 1..Len(pins) : pins[k] = req.user
         IN  IF req.route = "pin"
             THEN IF pinned THEN Responded(req, 400)
                  ELSE IF Len(pins) >= maxPins THEN Responded(req, 400)
                  ELSE [req EXCEPT !.pc = "save"]
             ELSE IF ~pinned THEN Responded(req, 400)
                  ELSE [req EXCEPT !.pc = "save",
                           !.pending = SelectSeq(pins, LAMBDA u : u # req.user)]

\* conversation.save(): a push is applied to the stored array, an assigned
\* array replaces it
SavedPins(req) ==
    IF req.route = "pin"
    THEN [conversations EXCEPT ![req.conv].pins = Append(@, req.user)]
    ELSE [conversations EXCEPT ![req.conv].pins = req.pending]

\* UserService.create up to `await sodium.validateKeyPair(publicKey)`
userCreate(req) ==
    IF req.keys = "missing" THEN Responded(req, 400)
    ELSE [req EXCEPT !.pc = "validateKeyPair"]

\* User.findOne({ hex }) finds a document
existingUser(hex) == \E k \in 1..Len(users) : users[k] = hex

\* user.save(): the unique index on hex rejects a second document of the hex
SaveAccepted(req, ok) == ok /\ ~existingUser(req.user)

\* UserService.create after validateKeyPair, after User.findOne({ hex }) and
\* after user.save(); ok = FALSE is the repository call rejecting, and every
\* rejection inside the try block is answered 500
AfterUserStep(req, ok) ==
    IF req.pc = "validateKeyPair"
    THEN IF req.keys = "invalid" THEN Responded(req, 400)
         ELSE [req EXCEPT !.pc = "findUser"]
    ELSE IF req.pc = "findUser"
    THEN IF ~ok THEN Responded([req EXCEPT !.fault = TRUE], 500)
         ELSE IF existingUser(req.user) THEN Responded(req, 409)
         ELSE [req EXCEPT !.pc = "saveUser"]
    ELSE IF SaveAccepted(req, ok) THEN Responded(req, 201)
         ELSE Responded([req EXCEPT !.fault = ~ok], 500)

\* the users collection after the step
SavedUsers(req, ok) ==
    IF req.pc = "saveUser" /\ SaveAccepted(req, ok)
    THEN Append(users, req.user)
    ELSE users

\* registerRoute's onData callback at the last chunk: parse the body, then
\* middleware up to `await validateToken(token)`.  The callback runs after the
\* route handler has returned, when the native request is no longer valid:
\* `readable` is whether req.getHeader('cookie') still reads it or throws.
OnData(input, parses, token, readable) ==
    /\ Len(requests) < MaxRequests
    /\ LET req == [input EXCEPT !.token = token]
       IN  requests' = Append(requests,
               IF ~parses THEN Responded(req, 400)
               ELSE IF ~readable THEN Thrown(req)
               ELSE IF token = "missing" THEN Responded(req, 401)
               ELSE [req EXCEPT !.pc = "validateToken"])
    /\ users' = users
    /\ UNCHANGED <<chatVars, workerVars, upgradeVars>>

\* a token the middleware accepts
TokenVerified(req) == req.token = "valid"

\* middleware after validateToken: 401, or next() -> handler
AfterValidateToken(req, stripped) ==
    IF ~TokenVerified(req)
    THEN Responded(req, 401)
    ELSE LET called == [req EXCEPT !.ran = TRUE]
         IN  CASE req.route = "create" -> create(called, HandlerBody(called), stripped)
               [] req.route = "userAdd" -> userCreate(called)
               [] OTHER -> pin(called, RouteParameter(called))

\* the section of a request's handling that runs when its awaited call
\* returns; `choice` is the driver's choice in exists and findOne, and whether
\* a save succeeds
HttpResume(r, choice) ==
    /\ r \in 1..Len(requests)
    /\ requests[r].pc \notin {"start", "done", "thrown"}
    /\ LET req == requests[r]
       IN  /\ requests' = [requests EXCEPT ![r] =
                  CASE req.pc = "validateToken" -> AfterValidateToken(req, choice)
                    [] req.pc = "findOne" -> AfterFindOne(req, choice)
                    [] req.pc = "save" -> Responded(req, IF choice THEN 200 ELSE 500)
                    [] OTHER -> AfterUserStep(req, choice)]
           /\ users' = SavedUsers(req, choice)
           /\ conversations' = IF req.pc = "save" /\ choice
                               THEN SavedPins(req)
                               ELSE conversations
    /\ UNCHANGED <<messages, nextId, clock, chatState, tasks, received, topicLog, queue>>
    /\ UNCHANGED <<workerVars, upgradeVars>>

-----------------------------------------------------------------------------
(* Acceptance of a conversation.  No route, service method or repository    *)
(* call of the repository's files accepts a conversation; the transition is *)
(* taken from the specification: accept(convHex, userHex) requires a        *)
(* participant and kind = request, and makes the conversation trusted.      *)

\* an accept that flips the kind, whoever asks
acceptAny(doc, user) ==
    [doc EXCEPT !.kind = IF @ = "request" THEN "trusted" ELSE "request"]

accept(doc, user) ==
    IF doc.kind = "request"
       /\ \E k \in DOMAIN doc.participants : doc.participants[k] = user
    THEN [doc EXCEPT !.kind = "trusted"]
    ELSE doc

Accept(hex, user) ==
    /\ hex \in DOMAIN conversations
    /\ conversations' = [conversations EXCEPT ![hex] = accept(@, user)]
    /\ UNCHANGED <<messages, nextId, clock, chatState, tasks, received, topicLog, queue>>
    /\ UNCHANGED <<workerVars, httpVars, upgradeVars>>

-----------------------------------------------------------------------------
(* The upgrade handlers of /events and /chat/:hex.  An upgrade request is   *)
(* the connection that asks for it and its x-access-token cookie.  The      *)
(* ghost fields record what the handler did with the response: the status   *)
(* it wrote, whether it called res.upgrade, and whether it called res.cork  *)
(* on a response that had been ended or aborted.                            *)

UpgradeRoutes == {"events", "chat"}
UpgradingChat == {"s1", "s5", "s6"}

\* the principal of the connection's cookie
ConnUser(c) == IF c \in ChatSockets THEN sockUser[c] ELSE evUser[c]

\* the connections that ask for the route
ConnsOf(route) == IF route = "chat" THEN UpgradingChat ELSE {"e1", "e2"}

\* upgrade: (res, req, context); only /chat/:hex calls res.onAborted
UpgradeOf(route, c, token) ==
    [route |-> route, conn |-> c, token |-> token, pc |-> "authorize",
     armed |-> route = "chat", aborted |-> FALSE, done |-> FALSE,
     ended |-> FALSE, status |-> None, upgradeCalled |-> FALSE,
     lateWrite |-> FALSE]

\* authorize: the token's user, or null without a cookie or on a failed
\* verification
authorize(token, user) == IF token = "valid" THEN user ELSE None

\* a lookup that returns the conversation to any user
checkConversationAnyUser(hex, user, found) ==
    IF ~found \/ hex \notin DOMAIN conversations
    THEN None
    ELSE hex

\* checkConversation: the conversation, or null when the lookup rejects, when
\* no conversation has the hex or when the user is not among its participants
checkConversation(hex, user, found) ==
    IF ~found \/ hex \notin DOMAIN conversations
    THEN None
    ELSE IF \A k \in DOMAIN conversations[hex].participants :
                conversations[hex].participants[k] # user
         THEN None
         ELSE hex

\* res.cork(() => { res.writeStatus(status); res.end() })
Cork(u, status) ==
    IF u.aborted \/ u.ended
    THEN [u EXCEPT !.lateWrite = TRUE]
    ELSE [u EXCEPT !.status = status, !.ended = TRUE]

\* catch (error): 500
UpgradeCatch(u) == [Cork(u, 500) EXCEPT !.pc = "done"]

PutUpgrade(k, u) == [upgrades EXCEPT ![k] = u]

NoSocketOpens == UNCHANGED <<chatVars, workerVars>>

\* the handler up to its first await
UpgradeRequest(route, c, token) ==
    /\ Len(upgrades) < MaxUpgrades
    /\ c \in ConnsOf(route)
    /\ \A k \in 1..Len(upgrades) : upgrades[k].conn # c
    /\ upgrades' = Append(upgrades, UpgradeOf(route, c, token))
    /\ NoSocketOpens
    /\ UNCHANGED httpVars

\* the client goes away while the handler waits for the conversation lookup;
\* the abort hook, where armed, sets res.done
Abort(k) ==
    /\ k \in 1..Len(upgrades)
    /\ upgrades[k].pc = "checkConversation"
    /\ ~upgrades[k].aborted
    /\ upgrades' = PutUpgrade(k, [upgrades[k] EXCEPT !.aborted = TRUE, !.done = @ \/ upgrades[k].armed])
    /\ NoSocketOpens
    /\ UNCHANGED httpVars

\* /events after `await authorize(cookies)`: the 401 branch does not return,
\* and the arguments of res.upgrade read the request after the await
\* (readable: the read returns the header; otherwise it throws)
EventsAfterAuthorize(k, u, readable, nested) ==
    LET user == authorize(u.token, ConnUser(u.conn))
        answered == IF user = None \/ u.done THEN Cork(u, 401) ELSE u
        called == [answered EXCEPT !.upgradeCalled = TRUE]
    IN  IF ~readable
        THEN upgrades' = PutUpgrade(k, UpgradeCatch(answered)) /\ NoSocketOpens
        ELSE IF called.ended \/ called.aborted
             THEN upgrades' = PutUpgrade(k, UpgradeCatch(called)) /\ NoSocketOpens
             ELSE /\ upgrades' = PutUpgrade(k, [called EXCEPT !.pc = "done"])
                  /\ EvOpened(u.conn, nested)
                  /\ UNCHANGED chatVars

\* /chat/:hex after `await authorize(headers.cookies)`: req.getParameter(0)
\* reads the request after the await
ChatAfterAuthorize(k, u, readable) ==
    LET user == authorize(u.token, ConnUser(u.conn))
    IN  /\ upgrades' = PutUpgrade(k,
               IF user = None \/ u.done
               THEN [Cork(u, 401) EXCEPT !.pc = "done"]
               ELSE IF ~readable
                    THEN UpgradeCatch(u)
                    ELSE [u EXCEPT !.pc = "checkConversation"])
        /\ NoSocketOpens

\* /chat/:hex after `await checkConversation(...)`
ChatAfterCheckConversation(k, u, found) ==
    LET conversation == checkConversation(sockConv[u.conn], ConnUser(u.conn), found)
    IN  IF conversation = None \/ u.done
        THEN /\ upgrades' = PutUpgrade(k, [Cork(u, 404) EXCEPT !.pc = "done"])
             /\ NoSocketOpens
        ELSE IF u.aborted
             THEN /\ upgrades' = PutUpgrade(k, UpgradeCatch([u EXCEPT !.upgradeCalled = TRUE]))
                  /\ NoSocketOpens
             ELSE /\ upgrades' = PutUpgrade(k, [u EXCEPT !.upgradeCalled = TRUE, !.pc = "done"])
                  /\ Opened(u.conn)
                  /\ UNCHANGED workerVars

\* an awaited call of an upgrade handler returns
UpgradeResume(k, found, readable, nested) ==
    /\ k \in 1..Len(upgrades)
    /\ upgrades[k].pc # "done"
    /\ LET u == upgrades[k]
       IN  CASE u.route = "events" -> EventsAfterAuthorize(k, u, readable, nested)
             [] u.pc = "authorize" -> ChatAfterAuthorize(k, u, readable)
             [] OTHER -> ChatAfterCheckConversation(k, u, found)
    /\ UNCHANGED httpVars

-----------------------------------------------------------------------------

Init ==
    /\ messages = [m \in {} |-> 0]
    /\ nextId = 0
    /\ clock = 0
    /\ conversations = [h \in Hexes |->
           [participants |-> Participants(h), pins |-> StoredPins(h),
            kind |-> StoredKind(h), last |-> 0, total |-> 0]]
    /\ chatState = [s \in ChatSockets |-> "new"]
    /\ tasks = <<>>
    /\ received = [s \in ChatSockets |-> <<>>]
    /\ topicLog = <<>>
    /\ queue = <<>>
    /\ jobsDone = <<>>
    /\ evState = [e \in EventSockets |-> "new"]
    /\ registry = [inst \in Instances |-> [u \in Users |-> None]]
    /\ evReceived = [e \in EventSockets |-> <<>>]
    /\ requests = <<>>
    /\ users = StoredUsers
    /\ upgrades = <<>>

\* the dispatcher, with the chat sockets of instance A
NextChat ==
    \/ \E s \in {"s1", "s2"} : ChatOpen(s)
    \/ \E s \in {"s1", "s2"} : ChatClose(s)
    \/ \E s \in {"s1", "s2"}, kind \in Kinds : \E p \in PayloadsFor(kind) : Receive(s, kind, p)
    \/ \E i \in 1..MaxFrames, ok \in BOOLEAN : Resume(i, ok)

SpecChat == Init /\ [][NextChat]_vars

\* the dispatcher handling `new` frames, the /events sockets of instance A and
\* the workers of both instances, which compete for the jobs of socketQueue
NextDelivery ==
    \/ \E s \in {"s2", "s3"} : ChatOpen(s)
    \/ \E s \in {"s2", "s3"} : ChatClose(s)
    \/ \E s \in {"s2", "s3"} : Receive(s, "new", Payload(TRUE, sockUser[s], "sent", 0, TRUE))
    \/ \E i \in 1..MaxFrames, ok \in BOOLEAN : Resume(i, ok)
    \/ \E e \in {"e1", "e2"}, nested \in BOOLEAN : EvOpen(e, nested)
    \/ \E e \in {"e1", "e2"} : EvClose(e)
    \/ \E inst \in Instances, outcome \in SendOutcomes : WorkerProcess(inst, outcome)

SpecDelivery == Init /\ [][NextDelivery]_vars

\* an awaited repository or queue call returns, and a worker takes the job at
\* the head of the queue
SpecDeliveryFair ==
    /\ SpecDelivery
    /\ WF_vars(\E i \in 1..MaxFrames, ok \in BOOLEAN : Resume(i, ok))
    /\ WF_vars(\E inst \in Instances, outcome \in SendOutcomes : WorkerProcess(inst, outcome))

\* the hub: the chat sockets of the participants of H1 and H2, and the
\* dispatcher handling `new` frames
HubSockets == {"s1", "s2", "s3", "s4"}

NextHub ==
    \/ \E s \in HubSockets : ChatOpen(s)
    \/ \E s \in HubSockets : ChatClose(s)
    \/ \E s \in HubSockets : Receive(s, "new", Payload(TRUE, sockUser[s], "sent", 0, TRUE))
    \/ \E i \in 1..MaxFrames, ok \in BOOLEAN : Resume(i, ok)

SpecHub == Init /\ [][NextHub]_vars

\* a socket of H1 and a socket of H2: the first sends `new` frames, the
\* second the frames that name a message by its id
NextCross ==
    \/ \E s \in {"s2", "s4"} : ChatOpen(s)
    \/ \E s \in {"s2", "s4"} : ChatClose(s)
    \/ Receive("s2", "new", Payload(TRUE, "u2", "sent", 0, TRUE))
    \/ \E kind \in {"status", "reaction", "update", "remove"} :
          \E p \in PayloadsFor(kind) : Receive("s4", kind, p)
    \/ \E i \in 1..MaxFrames, ok \in BOOLEAN : Resume(i, ok)

SpecCross == Init /\ [][NextCross]_vars

\* sockets of H1 and of H2 on one instance, the /events sockets of u1 and u2
\* and the worker of the instance
NextReach ==
    \/ \E s \in {"s1", "s2", "s4"} : ChatOpen(s)
    \/ \E s \in {"s1", "s2", "s4"} : ChatClose(s)
    \/ \E s \in {"s2", "s4"} : Receive(s, "new", Payload(TRUE, sockUser[s], "sent", 0, TRUE))
    \/ \E i \in 1..MaxFrames, ok \in BOOLEAN : Resume(i, ok)
    \/ \E e \in {"e1", "e2"} : EvOpen(e, TRUE)
    \/ \E e \in {"e1", "e2"} : EvClose(e)
    \/ \E outcome \in SendOutcomes : WorkerProcess("A", outcome)

SpecReach == Init /\ [][NextReach]_vars

\* the upgrade handlers of both socket routes; a socket opens when its
\* upgrade succeeds
NextUpgrade ==
    \/ \E route \in UpgradeRoutes, token \in Tokens :
          \E c \in ConnsOf(route) : UpgradeRequest(route, c, token)
    \/ \E k \in 1..MaxUpgrades : Abort(k)
    \/ \E k \in 1..MaxUpgrades, found \in BOOLEAN, readable \in BOOLEAN, nested \in BOOLEAN :
          UpgradeResume(k, found, readable, nested)

SpecUpgrade == Init /\ [][NextUpgrade]_vars

\* the connection registry: the sockets of u1 and u2 on both routes open and
\* close
NextRegistry ==
    \/ \E e \in EventSockets, nested \in BOOLEAN : EvOpen(e, nested)
    \/ \E e \in EventSockets : EvClose(e)
    \/ \E s \in {"s1", "s2"} : ChatOpen(s)
    \/ \E s \in {"s1", "s2"} : ChatClose(s)

SpecRegistry == Init /\ [][NextRegistry]_vars

\* creation and acceptance of conversations
NextAccept ==
    \/ \E parses \in BOOLEAN, token \in Tokens, readable \in BOOLEAN :
          \E input \in RequestsOf("create") : OnData(input, parses, token, readable)
    \/ \E r \in 1..MaxRequests, choice \in BOOLEAN : HttpResume(r, choice)
    \/ \E hex \in {"H1", "H2"}, user \in Users : Accept(hex, user)

SpecAccept == Init /\ [][NextAccept]_vars

\* the conversation service
NextHttp ==
    \/ \E route \in Routes, parses \in BOOLEAN, token \in Tokens, readable \in BOOLEAN :
          \E input \in RequestsOf(route) : OnData(input, parses, token, readable)
    \/ \E r \in 1..MaxRequests, choice \in BOOLEAN : HttpResume(r, choice)

SpecHttp == Init /\ [][NextHttp]_vars

-----------------------------------------------------------------------------
(* Properties of the dispatcher.                                            *)

Rank(status) ==
    CASE status = "sent" -> 0 [] status = "delivered" -> 1 [] OTHER -> 2

HandledKinds == {"new", "reply", "status", "reaction", "update", "remove"}

\* task i takes a step
Steps(i) ==
    /\ i \in 1..Len(tasks')
    /\ (i \in 1..Len(tasks) => tasks'[i] # tasks[i])

\* the task as it was before the step (a new task when the step is its arrival)
Before(i) == IF i \in 1..Len(tasks) THEN tasks[i] ELSE [tasks'[i] EXCEPT !.pc = "start"]

\* C1: the persisted status of a message never moves backward in the order
\* sent < delivered < read, whatever status frames are handled
C1_StatusNeverMovesBackward ==
    [][\A m \in DOMAIN messages \cap DOMAIN messages' :
          Rank(messages'[m].status) >= Rank(messages[m].status)]_vars

\* C2: a remove frame that names a user who is not the author of the message
\* it addresses never deletes it: no step of its handler changes the stored
\* messages, publishes or enqueues, and unless a repository call fails the
\* handler ends with exactly one send, of the error frame "Unauthorized to
\* delete message", to the originating socket and to no other
C2_NonAuthorRemoveRejected ==
    [][\A i \in 1..Len(tasks) :
          LET t == tasks[i]
              ref == t.arg.ref
          IN  ( /\ Steps(i)
                /\ t.kind = "remove"
                /\ t.arg.user \in Users
                /\ ref \in DOMAIN messages
                /\ t.arg.user # messages[ref].user )
              => /\ messages' = messages
                 /\ topicLog' = topicLog
                 /\ queue' = queue
                 /\ \A s \in ChatSockets \ {t.sock} : received'[s] = received[s]
                 /\ (tasks'[i].pc = "done" /\ ~tasks'[i].fault) =>
                       /\ tasks'[i].nerr = 1
                       /\ tasks'[i].npub = 0
                       /\ tasks'[i].njob = 0
                       /\ tasks'[i].err = "Unauthorized to delete message"
                       /\ received'[t.sock] =
                             IF chatState[t.sock] = "open"
                             THEN Append(received[t.sock],
                                     IdError(i, ref, "Unauthorized to delete message"))
                             ELSE received[t.sock]]_vars

\* C3: a handler (new, reply, status, reaction, update, remove) that completes
\* without an error enqueues exactly one job, in its last step: addressed to all
\* participants of the socket's conversation, carrying the {kind, message}
\* event it published, with 3 attempts and 1000 ms backoff
C3_SuccessEnqueuesOneJob ==
    [][\A i \in 1..Len(tasks') :
          LET t == tasks'[i]
          IN  /\ t.njob <= 1
              /\ ( /\ Steps(i)
                   /\ t.kind \in HandledKinds
                   /\ t.pc = "done"
                   /\ t.nerr = 0 )
                 => /\ t.njob = 1
                    /\ Before(i).njob = 0
                    /\ Len(queue') = Len(queue) + 1
                    /\ LET job == queue'[Len(queue')]
                       IN  /\ job.to = Participants(sockConv[t.sock])
                           /\ job.kind = "worker"
                           /\ job.data = t.event
                           /\ job.data.kind = t.kind
                           /\ job.data.task = i
                           /\ job.conversation = job.data.conversation
                           /\ job.attempts = 3
                           /\ job.backoff = 1000
              /\ (Steps(i) /\ ~(t.pc = "done" /\ t.nerr = 0)) => queue' = queue]_vars

C3_Witness ==
    \E i, j \in 1..Len(tasks) :
        /\ tasks[i].kind = "new" /\ tasks[i].pc = "done" /\ tasks[i].nerr = 0
        /\ tasks[j].kind = "status" /\ tasks[j].pc = "done" /\ tasks[j].nerr = 0
        /\ Len(queue) = 2
        /\ queue[2].data.kind = "status"

-----------------------------------------------------------------------------
(* Error frames.                                                            *)

\* the step of task i is a failure: it calls send with an error frame
Fails(i) == Steps(i) /\ tasks'[i].nerr = Before(i).nerr + 1

\* what the originating socket holds after a send of frame f in this step
AfterSend(s, f) ==
    IF chatState[s] = "open" THEN Append(received[s], f) ELSE received[s]

\* the shapes of the error frame of task i: {kind, error}, {id, error}, {error}
ErrorShapes(i, t) ==
    CASE t.kind = "reply" -> {KindError(i, "reply", t.err)}
      [] t.kind = "new" -> IF t.err = "Invalid message"
                           THEN {BareError(i, t.err)}
                           ELSE {KindError(i, "new", t.err)}
      [] OTHER -> {IdError(i, t.arg.ref, t.err)}

\* C6 as stated: whenever a handler for new, reply, status, reaction, update or
\* remove fails, it emits exactly one frame {kind: "error", message: {kind,
\* error}} carrying the handler's kind, to the originating socket only, and
\* nothing is published or enqueued by the failure
C6_ErrorFrameCarriesKind ==
    [][\A i \in 1..Len(tasks') :
          LET t == tasks'[i]
          IN  (Fails(i) /\ t.kind \in HandledKinds)
              => /\ t.nerr = 1
                 /\ received'[t.sock] = AfterSend(t.sock, KindError(i, t.kind, t.err))
                 /\ \A s \in ChatSockets \ {t.sock} : received'[s] = received[s]
                 /\ topicLog' = topicLog
                 /\ queue' = queue]_vars

\* C6 amended: a handler that fails makes exactly one send, of one frame of
\* kind "error" that carries the error text, and it ends there; the frame goes
\* to the originating socket and to no other socket, is never published to the
\* topic and never enqueued.  The frame's message is {kind, error} for reply
\* and for a failed save of new, {error} for a validation failure of new, and
\* {id, error} for status, reaction, update and remove.  A handler that is
\* done has either failed once or enqueued once.
C6_OneErrorToOriginOnly ==
    [][\A i \in 1..Len(tasks') :
          LET t == tasks'[i]
          IN  /\ (Fails(i) /\ t.kind \in HandledKinds)
                 => /\ t.nerr = 1
                    /\ t.pc = "done"
                    /\ t.err # None
                    /\ \E f \in ErrorShapes(i, t) :
                          /\ f.kind = "error"
                          /\ received'[t.sock] = AfterSend(t.sock, f)
                    /\ \A s \in ChatSockets \ {t.sock} : received'[s] = received[s]
                    /\ topicLog' = topicLog
                    /\ queue' = queue
              /\ (t.kind \in HandledKinds /\ t.pc = "done") => t.nerr + t.njob = 1
              /\ \A k \in 1..Len(topicLog') : topicLog'[k].frame.kind # "error"
              /\ \A k \in 1..Len(queue') : queue'[k].data.kind # "error"]_vars

\* a status frame for an unknown id was answered on the sender's socket while
\* the other participant was subscribed and received no error frame
C6_Witness ==
    \E i \in 1..Len(tasks) :
        /\ tasks[i].kind = "status"
        /\ tasks[i].sock = "s1"
        /\ tasks[i].nerr = 1
        /\ \E k \in 1..Len(received["s1"]) :
              received["s1"][k] = IdError(i, tasks[i].arg.ref, "Message not found")
        /\ received["s2"] # <<>>
        /\ \A k \in 1..Len(received["s2"]) : received["s2"][k].kind # "error"

-----------------------------------------------------------------------------
(* Ordering, conversation counters, removal.                                *)

\* C7: for two frames arriving on the same socket, the publish caused by the
\* earlier frame is observed at the hub before the publish caused by the later
\* one
C7_PerSocketArrivalOrder ==
    \A k, l \in 1..Len(topicLog) :
        ( /\ k < l
          /\ topicLog[k].from = topicLog[l].from
          /\ topicLog[k].frame.task > 0
          /\ topicLog[l].frame.task > 0 )
        => topicLog[k].frame.task <= topicLog[l].frame.task

\* the number of persisted messages of conversation h
CountOf(h) == Cardinality({m \in DOMAIN messages : messages[m].conversation = h})

\* C9: once every frame handled is a new, reply or remove frame that completed
\* successfully, each persisted message m has a conversation whose `last`
\* refers to a message created no earlier than m and whose `total` is at least
\* the number of persisted messages of the conversation
C9_LastAndTotalCoverMessages ==
    ( \A i \in 1..Len(tasks) :
         /\ tasks[i].kind \in {"new", "reply", "remove"}
         /\ tasks[i].pc = "done"
         /\ tasks[i].nerr = 0 )
    => \A m \in DOMAIN messages :
          LET c == conversations[messages[m].conversation]
          IN  /\ c.last \in DOMAIN messages
              /\ messages[c.last].createdAt >= messages[m].createdAt
              /\ c.total >= CountOf(messages[m].conversation)

\* C10: a remove frame that names the author of the existing message it
\* addresses is not rejected: unless a repository call fails, the handler goes
\* from the lookup to the deletion, and the deletion removes the message and
\* publishes one {kind: "remove", message: {_id, conversation}} frame to the
\* topic
C10_AuthorRemoveDeletes ==
    [][\A i \in 1..Len(tasks) :
          LET t == tasks[i]
              ref == t.arg.ref
          IN  ( /\ Steps(i)
                /\ t.kind = "remove"
                /\ t.arg.user \in Users
                /\ ref \in DOMAIN messages
                /\ t.arg.user = messages[ref].user
                /\ ~tasks'[i].fault )
              => /\ t.pc = "find" => tasks'[i].pc = "remove"
                 /\ t.pc = "remove" =>
                       /\ ref \notin DOMAIN messages'
                       /\ topicLog' = Append(topicLog,
                             HubEntry(t.sock, EventFrame(i, "remove", ref, t.conv, None)))]_vars

-----------------------------------------------------------------------------
(* Delivery by the worker.                                                  *)

\* C4: when a worker processes a job, every recipient in `to` that has an open
\* connection in the registry of the worker's instance is sent a frame, whether
\* or not the other recipient is connected
C4_EachConnectedRecipientIsSent ==
    [][Len(jobsDone') = Len(jobsDone) + 1
       => LET d == jobsDone'[Len(jobsDone')]
          IN  \A k \in 1..Len(d.job.to) :
                 LET e == registry[d.inst][d.job.to[k]]
                 IN  (e # None /\ EvIsOpen(e))
                     => Len(evReceived'[e]) = Len(evReceived[e]) + 1]_vars

\* the `new` event of task i has reached user u: on a chat socket of u through
\* the hub, or on an /events socket of u through a worker
Reached(u, i) ==
    \/ \E s \in ChatSockets :
          /\ sockUser[s] = u
          /\ \E k \in 1..Len(received[s]) :
                received[s][k].kind = "new" /\ received[s][k].task = i
    \/ \E e \in EventSockets :
          /\ evUser[e] = u
          /\ \E k \in 1..Len(evReceived[e]) : evReceived[e][k].data.task = i

\* C5: if a `new` frame is handled successfully and the other participant is
\* registered on /events when the job is about to be enqueued and stays
\* connected, the participant eventually receives the {kind: "new"} frame,
\* through the hub or through a worker
C5_AtLeastOnceDelivery ==
    \A i \in 1..MaxFrames, e \in EventSockets :
        []( ( /\ i \in 1..Len(tasks)
              /\ tasks[i].kind = "new"
              /\ tasks[i].pc = "enqueue"
              /\ evUser[e] # sockUser[tasks[i].sock]
              /\ evState[e] = "open" )
            => <>( \/ Reached(evUser[e], i)
                   \/ evState[e] # "open"
                   \/ (i \in 1..Len(tasks) /\ tasks[i].nerr = 1) ) )

-----------------------------------------------------------------------------
(* Conversation creation.                                                   *)

\* the unordered pair of a conversation's participants
PairOf(participants) == {participants[k] : k \in 1..Len(participants)}

\* C8: no two persisted conversations have the same unordered pair of
\* participants, and an authenticated create request that names the pair of a
\* persisted conversation, in either order, and has been handled is answered
\* with 400
C8_CreateForExistingPairRejected ==
    /\ \A g, h \in DOMAIN conversations :
          g # h => PairOf(conversations[g].participants)
                      # PairOf(conversations[h].participants)
    /\ \A r \in 1..Len(requests) :
          LET req == requests[r]
          IN  ( /\ req.route = "create"
                /\ req.pc \in {"done", "thrown"}
                /\ req.token = "valid"
                /\ \E h \in DOMAIN conversations :
                      PairOf(conversations[h].participants) = PairOf(req.participants) )
              => (req.pc = "done" /\ req.status = 400)

-----------------------------------------------------------------------------
(* The conversation's `last` on removal.                                    *)

\* the message of conversation h in msgs with the greatest createdAt, 0 (null)
\* when msgs holds no message of h
LatestIn(msgs, h) ==
    LET of == {m \in DOMAIN msgs : msgs[m].conversation = h}
    IN  IF of = {} THEN 0
        ELSE CHOOSE m \in of : \A n \in of : msgs[n].createdAt <= msgs[m].createdAt

\* C11: `last` never refers to a message that is not persisted; and when the
\* handler of a remove frame that names the author of the conversation's most
\* recent message deletes or ends, without a repository failure, the message
\* is gone and `last` refers to the remaining message of the conversation with
\* the greatest createdAt, or is null when none remains
C11_RemoveRecomputesLast ==
    [][/\ \A h \in DOMAIN conversations' :
             conversations'[h].last # 0 => conversations'[h].last \in DOMAIN messages'
       /\ \A i \in 1..Len(tasks) :
             LET t == tasks[i]
                 ref == t.arg.ref
             IN  ( /\ Steps(i)
                   /\ t.kind = "remove"
                   /\ t.arg.user \in Users
                   /\ ref \in DOMAIN messages
                   /\ t.arg.user = messages[ref].user
                   /\ ref = LatestIn(messages, messages[ref].conversation)
                   /\ ~tasks'[i].fault
                   /\ (t.pc = "remove" \/ tasks'[i].pc = "done") )
                 => /\ ref \notin DOMAIN messages'
                    /\ conversations'[messages[ref].conversation].last
                          = LatestIn(messages', messages[ref].conversation)]_vars

-----------------------------------------------------------------------------
(* Pins.                                                                    *)

\* the conversations user u has pinned
PinsOf(u) ==
    {h \in DOMAIN conversations :
        \E k \in 1..Len(conversations[h].pins) : conversations[h].pins[k] = u}

\* the request has been handled: answered, or abandoned by an exception
Handled(req) == req.pc \in {"done", "thrown"}

\* C12: a pin request of an authenticated user who holds maxPins pins on
\* other, distinct conversations is, once handled, answered 400 ("Cannot pin
\* more than 5 conversations") and has added no pin
C12_PinBeyondLimitRejected ==
    \A r \in 1..Len(requests) :
        LET req == requests[r]
        IN  ( /\ req.route = "pin"
              /\ req.token = "valid"
              /\ Handled(req)
              /\ Cardinality(PinsOf(req.user) \ {req.hex}) >= maxPins )
            => /\ req.pc = "done"
               /\ req.status = 400
               /\ req.hex \notin PinsOf(req.user)

\* C13: whatever pin and unpin requests have been handled, every conversation
\* holds at most one pin per user and at most maxPins pins
C13_PinsBounded ==
    \A h \in DOMAIN conversations :
        LET pins == conversations[h].pins
        IN  /\ Len(pins) <= maxPins
            /\ \A k, l \in 1..Len(pins) : pins[k] = pins[l] => k = l

\* the handlers of two pin requests of one user for one conversation have
\* both run
C13_Witness ==
    /\ Len(requests) = 2
    /\ \A r \in 1..2 :
          /\ requests[r].route = "pin"
          /\ requests[r].hex = "H1"
          /\ requests[r].user = "u1"
          /\ requests[r].ran
          /\ Handled(requests[r])

-----------------------------------------------------------------------------
(* The channel hub.                                                         *)

\* the step publishes to a hub
Publishes == Len(topicLog') = Len(topicLog) + 1

\* the connections of the instance that are subscribed to the topic and open
\* when the publish is called
OpenOnTopic(inst, topic) ==
    {s \in ChatSockets :
        chatState[s] = "open" /\ sockInst[s] = inst /\ sockConv[s] = topic}

-----------------------------------------------------------------------------
(* The upgrade handlers.                                                    *)

\* the upgrade requests whose handler has finished
Finished == {k \in 1..Len(upgrades) : upgrades[k].pc = "done"}

IsParticipant(user, hex) ==
    /\ hex \in DOMAIN conversations
    /\ \E k \in DOMAIN conversations[hex].participants :
          conversations[hex].participants[k] = user

\* C15: an /events upgrade whose cookie fails token verification is answered
\* 401 and is never upgraded: res.upgrade is not called on it, and no socket
\* is opened or registered for it
C15_BadCookieEventsNeverUpgraded ==
    \A k \in Finished :
        LET u == upgrades[k]
        IN  (u.route = "events" /\ u.token # "valid") =>
               /\ u.status = 401
               /\ ~u.upgradeCalled
               /\ evState[u.conn] = "new"
               /\ \A inst \in Instances, user \in Users : registry[inst][user] # u.conn

\* C16: a /chat/:hex upgrade by an authenticated principal fails with 404
\* exactly when no conversation has the hex, and with 401 exactly when the
\* conversation exists and the principal is not one of its participants
C16_ChatUpgradeStatuses ==
    \A k \in Finished :
        LET u == upgrades[k]
            hex == sockConv[u.conn]
        IN  (u.route = "chat" /\ u.token = "valid" /\ ~u.aborted) =>
               /\ u.status = 404 <=> hex \notin DOMAIN conversations
               /\ u.status = 401 <=> (hex \in DOMAIN conversations
                                        /\ ~IsParticipant(ConnUser(u.conn), hex))

\* C17: every open chat socket went through an upgrade that authenticated
\* its principal, and is tagged with a conversation of which its user is a
\* participant
C17_OpenChatSocketIsParticipant ==
    \A s \in ChatSockets :
        chatState[s] = "open" =>
           /\ \E k \in Finished : /\ upgrades[k].conn = s
                                  /\ upgrades[k].token = "valid"
                                  /\ upgrades[k].upgradeCalled
           /\ IsParticipant(sockUser[s], sockConv[s])

\* the upgrade of u1 to /chat/H1 succeeded and the socket is open, while the
\* upgrade of u3, who is outside H1, has finished without a socket
C17_Witness ==
    /\ chatState["s1"] = "open"
    /\ chatState["s5"] = "new"
    /\ \E k \in Finished : upgrades[k].conn = "s5" /\ upgrades[k].token = "valid"
                           /\ upgrades[k].status = 404

\* C18: both upgrade handlers arm an abort hook, and once the client has
\* aborted the request the handler writes no status to the response and does
\* not call res.upgrade on it
C18_AbortedUpgradeIsLeftAlone ==
    \A k \in 1..Len(upgrades) :
        LET u == upgrades[k]
        IN  /\ u.armed
            /\ u.aborted => (~u.lateWrite /\ ~u.upgradeCalled)

-----------------------------------------------------------------------------
(* The connection registry.                                                 *)

\* the connections the registry of the instance returns for the user
Registered(inst, user) == {registry[inst][user]} \ {None}

\* the user's connections to the instance that are open
OpenConnections(inst, user) ==
    {e \in EventSockets : evInst[e] = inst /\ evUser[e] = user /\ EvIsOpen(e)}
    \cup {s \in ChatSockets :
             sockInst[s] = inst /\ sockUser[s] = user /\ chatState[s] = "open"}

\* C19: after any sequence of opens and closes on /events and /chat/:hex the
\* registry maps each user to exactly the set of the user's open connections:
\* an open connection is returned, also after another connection of the user
\* closed, and a closed connection is not
C19_RegistryIsOpenConnections ==
    \A inst \in Instances, user \in Users :
        Registered(inst, user) = OpenConnections(inst, user)

-----------------------------------------------------------------------------
(* Authentication of the HTTP endpoints.                                    *)

\* the request's handling has come to its end, answered or not
Over(req) == req.pc \in {"done", "thrown"}

\* C20 as stated: an endpoint other than user creation runs its handler only
\* after the cookie token was verified and otherwise answers 401, and user
\* creation (PUT /user/add) is served without a cookie
C20_CookieRequiredExceptUserCreation ==
    \A r \in 1..Len(requests) :
        LET req == requests[r]
        IN  /\ (req.route # "userAdd" /\ req.token # "valid") =>
                  /\ ~req.ran
                  /\ Over(req) => req.status = 401
            /\ (req.route = "userAdd" /\ req.token = "missing" /\ Over(req)) =>
                  /\ req.ran
                  /\ req.status # 401

-----------------------------------------------------------------------------
(* The conversation's kind.                                                 *)

-----------------------------------------------------------------------------
(* The participants of a conversation.                                      *)

\* the create request is handled further in this step
Stepped(r) == r > Len(requests) \/ requests'[r] # requests[r]

-----------------------------------------------------------------------------
(* The author of a message.                                                 *)

\* C23: the `user` of every persisted message is a participant of the
\* conversation its `conversation` field names
C23_AuthorIsParticipant ==
    \A m \in DOMAIN messages :
        LET doc == messages[m]
        IN  /\ doc.conversation \in DOMAIN conversations
            /\ \E k \in DOMAIN conversations[doc.conversation].participants :
                  conversations[doc.conversation].participants[k] = doc.user

-----------------------------------------------------------------------------
(* Registration of users.                                                   *)

\* C24: a registration whose repository calls succeed and that comes to its
\* answer while its hex is registered is answered 409 and stores no user (so
\* of two registrations of one hex that run together one is answered 201 and
\* the other 409), and no two stored users share a hex
C24_DuplicateRegistrationIs409 ==
    [][/\ \A k, l \in 1..Len(users') : users'[k] = users'[l] => k = l
       /\ \A r \in 1..Len(requests) :
             LET req == requests[r]
                 after == requests'[r]
             IN  ( /\ req.route = "userAdd"
                   /\ req.pc \in {"findUser", "saveUser"}
                   /\ after.pc = "done"
                   /\ ~after.fault
                   /\ existingUser(req.user) )
                 => (after.status = 409 /\ users' = users)]_vars

-----------------------------------------------------------------------------
(* A reply whose parent is missing.                                         *)

\* the step in which the lookup of the parent of reply i returns, for a parent
\* that is no persisted message
ParentMissing(i) ==
    /\ i \in 1..Len(tasks)
    /\ tasks[i].kind = "reply"
    /\ tasks[i].pc = "findParent"
    /\ tasks'[i] # tasks[i]
    /\ (tasks[i].arg.ref \notin DOMAIN messages \/ ~tasks[i].arg.castable)

\* the handler ends with the error text sent to the originating socket, and
\* nothing is persisted, published or enqueued
EndsWith(i, text) ==
    /\ tasks'[i].pc = "done"
    /\ tasks'[i].err = text
    /\ received' = Sent(received, tasks[i].sock, KindError(i, "reply", text))
    /\ messages' = messages
    /\ topicLog' = topicLog
    /\ queue' = queue

-----------------------------------------------------------------------------
(* The projection of the parent in a reply.                                 *)

\* the envelopes of p, swapped
Swapped(p) ==
    [recipientContent |-> p.senderContent, senderContent |-> p.recipientContent]

\* C26: a persisted reply whose parent p is stored carries the projection
\* `reply` with reply.recipientContent = p.senderContent and
\* reply.senderContent = p.recipientContent
C26_ReplyCarriesSwappedProjection ==
    \A m \in DOMAIN messages :
        (messages[m].kind = "reply" /\ messages[m].parent \in DOMAIN messages)
           => /\ "reply" \in DOMAIN messages[m]
              /\ messages[m].reply = Swapped(messages[messages[m].parent])

-----------------------------------------------------------------------------
(* Failed deliveries.                                                       *)

\* C27: when a send to a connected recipient throws while a worker processes
\* a job, the job is reported failed and is in the queue again for its retry
\* unless this was its third attempt; and no job is processed more than three
\* times
C27_FailedDeliveryIsRetried ==
    /\ [][Len(jobsDone') = Len(jobsDone) + 1
          => LET d == jobsDone'[Len(jobsDone')]
             IN  d.thrown # 0
                    => /\ d.failed
                       /\ (AttemptsMade(d.job) + 1 < Attempts
                              => \E k \in 1..Len(queue') : queue'[k] = d.job)]_vars
    /\ [](\A k \in 1..Len(jobsDone) : AttemptsMade(jobsDone[k].job) <= Attempts)

-----------------------------------------------------------------------------
(* Reactions.                                                               *)

\* the reaction in a slot of a stored message
SlotOf(doc, slot) ==
    IF doc.reactions = <<>> THEN None ELSE doc.reactions[1][slot]

\* C28: when the handling of a reaction frame {id, reaction, user} on a
\* stored message has completed without a repository failure, the slot of the
\* message that the user selects (`from` for the author, `to` otherwise)
\* holds the reaction
C28_ReactionSetsSlot ==
    \A i \in 1..Len(tasks) :
        LET t == tasks[i]
        IN  (/\ t.kind = "reaction"
             /\ t.pc = "done"
             /\ "reaction" \in DOMAIN t.arg
             /\ ~t.fault
             /\ t.arg.ref \in DOMAIN messages)
               => SlotOf(messages[t.arg.ref],
                         IF t.arg.user = messages[t.arg.ref].user
                         THEN "from" ELSE "to") = t.arg.reaction

-----------------------------------------------------------------------------
(* The status verb.                                                         *)

\* C29: when the handling of a status frame that names the verb `delivered`
\* or `read` for a stored message has completed without a repository failure,
\* the message has the status the frame names
C29_StatusVerbIsStored ==
    \A i \in 1..Len(tasks) :
        LET t == tasks[i]
        IN  (/\ t.kind = "status"
             /\ t.pc = "done"
             /\ t.arg.status \in {"delivered", "read"}
             /\ ~t.fault
             /\ t.arg.ref \in DOMAIN messages)
               => messages[t.arg.ref].status = t.arg.status

-----------------------------------------------------------------------------
(* The reserved kind forward.                                               *)

\* C30: the step that handles a frame of kind forward changes no stored
\* message or conversation, publishes nothing, enqueues nothing, and sends
\* the originating socket one error frame
C30_ForwardAnswersNotImplemented ==
    [][(Len(tasks') = Len(tasks) + 1 /\ tasks'[Len(tasks')].kind = "forward")
          => LET s == tasks'[Len(tasks')].sock
             IN  /\ messages' = messages
                 /\ conversations' = conversations
                 /\ topicLog' = topicLog
                 /\ queue' = queue
                 /\ Len(received'[s]) = Len(received[s]) + 1
                 /\ received'[s][Len(received'[s])].kind = "error"]_vars

-----------------------------------------------------------------------------
(* Writes of status and of contents on one message.                         *)

\* the envelopes an update frame carries
EditedSenderEnvelope == "edited-for-sender"
EditedRecipientEnvelope == "edited-for-recipient"

\* C31: the writes of a status frame and of an update frame on one message do
\* not undo each other: no step lowers the status of a stored message, and
\* once an update frame for a stored message has been handled without a
\* repository failure the message holds the envelopes of the update
C31_StatusMaxAndUpdateKept ==
    /\ [][\A m \in DOMAIN messages \cap DOMAIN messages' :
             Rank(messages'[m].status) >= Rank(messages[m].status)]_vars
    /\ [](\A j \in 1..Len(tasks) :
             (/\ tasks[j].kind = "update"
              /\ tasks[j].pc = "done"
              /\ ~tasks[j].fault
              /\ tasks[j].arg.ref \in DOMAIN messages)
                => /\ messages[tasks[j].arg.ref].senderContent = EditedSenderEnvelope
                   /\ messages[tasks[j].arg.ref].recipientContent
                         = EditedRecipientEnvelope)

-----------------------------------------------------------------------------
(* The order of the steps of save and reply.                                *)

\* C32: a frame of kind new or reply is published only for a message that is
\* persisted at the time of the publish; the job of such a frame is enqueued
\* only after the frame was published; and the steps of a new or reply frame
\* that failed validation persist nothing
C32_ValidatePersistPublishEnqueue ==
    /\ [][Len(topicLog') = Len(topicLog) + 1
             => LET f == topicLog'[Len(topicLog')].frame
                IN  f.kind \in {"new", "reply"} => f.id \in DOMAIN messages']_vars
    /\ [][Len(queue') = Len(queue) + 1
             => LET f == queue'[Len(queue')].data
                IN  f.kind \in {"new", "reply"}
                       => \E k \in 1..Len(topicLog) : topicLog[k].frame = f]_vars
    /\ [][\A i \in 1..MaxFrames :
             (/\ Steps(i)
              /\ tasks'[i].kind \in {"new", "reply"}
              /\ ~tasks'[i].arg.valid)
                => messages' = messages /\ tasks'[i].mid = 0]_vars

\* a new frame has been persisted, published and enqueued, and a frame that
\* failed validation has been answered, with the one message stored
C32_Witness ==
    /\ Len(tasks) = 2
    /\ tasks[1].kind = "new" /\ tasks[1].pc = "done" /\ tasks[1].njob = 1
    /\ tasks[1].mid \in DOMAIN messages
    /\ \E k \in 1..Len(topicLog) : topicLog[k].frame.task = 1
    /\ \E k \in 1..Len(queue) : queue[k].data.task = 1
    /\ tasks[2].kind \in {"new", "reply"} /\ ~tasks[2].arg.valid
    /\ tasks[2].pc = "done"
    /\ Cardinality(DOMAIN messages) = 1

-----------------------------------------------------------------------------
(* Frames without the optional fields.                                      *)

\* C34: a new frame whose required fields are valid and whose optional
\* fields are absent is sent no error frame, and once it has been handled
\* without a repository or socket failure its message is persisted and
\* published
C34_MinimalFrameIsAccepted ==
    \A i \in 1..Len(tasks) :
        (/\ tasks[i].kind = "new"
         /\ "values" \in DOMAIN tasks[i].arg
         /\ tasks[i].arg.values = MinimalFrame)
           => /\ tasks[i].pc = "done" => tasks[i].fault \/ tasks[i].npub = 1
              /\ tasks[i].fault \/ tasks[i].nerr = 0

-----------------------------------------------------------------------------
(* What the worker sends.                                                   *)

\* C33: the frame a worker sends to a recipient is the frame in the job's
\* `data` field, the {kind, message} frame that was published for the event
C33_WorkerSendsTheFrame ==
    [][Len(jobsDone') = Len(jobsDone) + 1
          => LET d == jobsDone'[Len(jobsDone')]
             IN  \A e \in d.sentTo :
                    evReceived'[e][Len(evReceived'[e])] = d.job.data]_vars

-----------------------------------------------------------------------------
(* The author and the conversation of a persisted message.                  *)

\* the stored messages that the frame of task i persisted
PersistedBy(i) ==
    IF tasks[i].kind \in {"new", "reply"} /\ tasks[i].mid \in DOMAIN messages
    THEN {tasks[i].mid}
    ELSE {}

\* C35: the user of every message persisted by a new or reply frame is the
\* authenticated user of the socket that sent the frame
C35_AuthorIsSocketUser ==
    \A i \in 1..Len(tasks) :
        \A m \in PersistedBy(i) : messages[m].user = sockUser[tasks[i].sock]

-----------------------------------------------------------------------------
(* Messages of other conversations.                                         *)

\* C36: a step of a status, reaction, update or remove frame on a socket
\* bound to conversation H leaves every message of another conversation
\* stored and unchanged
C36_HandlersStayInConversation ==
    [][\A i \in 1..MaxFrames :
          (/\ Steps(i)
           /\ tasks'[i].kind \in {"status", "reaction", "update", "remove"})
             => \A m \in DOMAIN messages :
                   messages[m].conversation # sockConv[tasks'[i].sock]
                      => m \in DOMAIN messages' /\ messages'[m] = messages[m]]_vars

\* C37: every message persisted by a new or reply frame has the conversation
\* the sending socket is bound to
C37_ConversationIsTheSockets ==
    \A i \in 1..Len(tasks) :
        \A m \in PersistedBy(i) : messages[m].conversation = sockConv[tasks[i].sock]

\* messages of two sockets of different conversations are stored, each with
\* the conversation of its socket
C37_Witness ==
    /\ Len(tasks) = 2
    /\ sockConv[tasks[1].sock] # sockConv[tasks[2].sock]
    /\ PersistedBy(1) # {} /\ PersistedBy(2) # {}
    /\ \E m \in PersistedBy(1) : messages[m].conversation = sockConv[tasks[1].sock]
    /\ \E m \in PersistedBy(2) : messages[m].conversation = sockConv[tasks[2].sock]

-----------------------------------------------------------------------------
(* Who a frame reaches.                                                     *)

\* user is a participant of the conversation ws is bound to
ParticipantOfSocket(user, ws) ==
    \E k \in 1..Len(Participants(sockConv[ws])) :
        Participants(sockConv[ws])[k] = user

\* C38: a frame that a step of an inbound frame on a socket bound to H puts
\* on a chat socket reaches a socket of the topic /chat/H whose user is a
\* participant of H, and a job caused by that frame is sent by a worker only
\* to /events connections of participants of H
C38_FramesReachParticipantsOnly ==
    /\ [][\A i \in 1..MaxFrames :
             Steps(i)
                => \A s \in ChatSockets :
                      received'[s] # received[s]
                         => /\ sockConv[s] = sockConv[tasks'[i].sock]
                            /\ ParticipantOfSocket(sockUser[s], tasks'[i].sock)]_vars
    /\ [][Len(jobsDone') = Len(jobsDone) + 1
             => LET d == jobsDone'[Len(jobsDone')]
                    ws == tasks[d.job.data.task].sock
                IN  \A e \in EventSockets :
                       evReceived'[e] # evReceived[e]
                          => ParticipantOfSocket(evUser[e], ws)]_vars

\* a frame of H1 has reached the other socket of H1 through the hub and
\* the /events connections of u1 and u2 through the worker, a job of H2 has
\* been processed while the /events connection of u2 was registered, and
\* u2, who is no participant of H2, has been sent one job only
C38_Witness ==
    /\ Len(tasks) = 2
    /\ tasks[1].sock = "s2" /\ tasks[2].sock = "s4"
    /\ \E k \in 1..Len(received["s1"]) : received["s1"][k].task = 1
    /\ \A k \in 1..Len(received["s4"]) : received["s4"][k].task # 1
    /\ \A s \in {"s1", "s2"} : \A k \in 1..Len(received[s]) : received[s][k].task # 2
    /\ Len(jobsDone) = 2
    /\ jobsDone[1].sentTo = {"e1", "e2"}
    /\ jobsDone[2].job.data.task = 2
    /\ evState["e2"] = "open"
    /\ Len(evReceived["e2"]) = 1

-----------------------------------------------------------------------------
(* Error answers.                                                           *)

\* the originating socket of task i has received an error frame for it
AnsweredWithError(i) ==
    \E k \in 1..Len(received[tasks[i].sock]) :
        /\ received[tasks[i].sock][k].kind = "error"
        /\ received[tasks[i].sock][k].task = i

\* C39: a new or reply frame that was answered with an error frame on its
\* socket has persisted no message and published nothing to the topic
C39_ErrorMeansNoEffect ==
    \A i \in 1..Len(tasks) :
        (tasks[i].kind \in {"new", "reply"} /\ AnsweredWithError(i))
           => /\ PersistedBy(i) = {}
              /\ \A k \in 1..Len(topicLog) : topicLog[k].frame.task # i

====
